---- MODULE Spec2Model ----
(***************************************************************************)
(* SimpleVector<Type> of src/simple-vector/simple_vector.h, with Type an   *)
(* integer-like element type (copy and move of an element both leave the   *)
(* value in the destination).  Two vector objects, "a" and "b", are kept   *)
(* so that copy, move, assignment and swap have a partner.                 *)
(*                                                                         *)
(* A vector is a record                                                    *)
(*   items    : the block owned by items_ (its length is the number of     *)
(*              elements the block was allocated for),                     *)
(*   size     : size_,                                                     *)
(*   capacity : capacity_.                                                 *)
(* Indices are 0-based as in the code; items[i+1] is slot i.               *)
(***************************************************************************)
EXTENDS Integers, Sequences, FiniteSets, TLC

\* Largest capacity / allocation a vector reaches when one vector is followed.
MaxCap == 4
\* Largest capacity / allocation a vector reaches when two vectors are followed.
MaxCapPair == 2
\* Longest initializer list.
MaxInit == 2

VARIABLES vec, hist, run, rt

vars == <<vec, hist, run, rt>>

Names == {"a", "b"}

Other(n) == IF n = "a" THEN "b" ELSE "a"

\* The element type: two values are enough to tell any two slots apart.
Values == {0, 1}

\* Type{} : the value-initialised element.
DefaultValue == 0

\* What a read yields when the slot was never written since its allocation,
\* or lies outside the allocated block: no value the program can rely on.
Indeterminate == -1

Max(x, y) == IF x >= y THEN x ELSE y

Alloc(v) == Len(v.items)

\* ArrayPtr<Type>(n): a block for exactly n elements, contents unspecified.
Fresh(n) == [i \in 1..n |-> Indeterminate]

\* items_[i] as an rvalue.
Load(items, i) == IF i < Len(items) THEN items[i + 1] ELSE Indeterminate

\* items_[i] = x.  A store outside the block does not land in the block.
Store(items, i, x) == IF i < Len(items) THEN [items EXCEPT ![i + 1] = x] ELSE items

\* std::copy / std::move(first, last, d_first) between two different blocks.
RECURSIVE CopyFwd(_, _, _, _, _)
CopyFwd(src, first, last, dst, d) ==
    IF first >= last THEN dst
    ELSE CopyFwd(src, first + 1, last, Store(dst, d, Load(src, first)), d + 1)

\* std::copy_backward / std::move_backward(first, last, d_last) between two blocks.
RECURSIVE CopyBack(_, _, _, _, _)
CopyBack(src, first, last, dst, dlast) ==
    IF first >= last THEN dst
    ELSE CopyBack(src, first, last - 1, Store(dst, dlast - 1, Load(src, last - 1)), dlast - 1)

\* std::move(first, last, d_first) inside one block (Erase).
RECURSIVE ShiftFwd(_, _, _, _)
ShiftFwd(items, first, last, d) ==
    IF first >= last THEN items
    ELSE ShiftFwd(Store(items, d, Load(items, first)), first + 1, last, d + 1)

\* std::copy_backward(first, last, d_last) inside one block (Insert).
RECURSIVE ShiftBack(_, _, _, _)
ShiftBack(items, first, last, dlast) ==
    IF first >= last THEN items
    ELSE ShiftBack(Store(items, dlast - 1, Load(items, last - 1)), first, last - 1, dlast - 1)

\* std::fill / std::generate / the reset loops: slots [first, last) := x.
RECURSIVE Fill(_, _, _, _)
Fill(items, first, last, x) ==
    IF first >= last THEN items
    ELSE Fill(Store(items, first, x), first + 1, last, x)

\* The empty vector: SimpleVector() noexcept = default.
EmptyVec == [items |-> <<>>, size |-> 0, capacity |-> 0]

\* The logical elements [0, size) as a reader sees them.
Elems(v) == [i \in 1..v.size |-> Load(v.items, i - 1)]

\* Indices of the block that lie outside what it was allocated for.
OutOfBlock(v, idx) == \E i \in idx : i >= Alloc(v)

(***************************************************************************)
(* The operations, as functions from the vector before to the vector after.*)
(* Each XAccess gives the slots of the vector's own block (items_) that    *)
(* the operation reads (rd) and writes (wr).                               *)
(***************************************************************************)

\* explicit SimpleVector(size_t size)
SizeCtor(n) == [items |-> Fill(Fresh(n), 0, n, DefaultValue), size |-> n, capacity |-> n]

\* SimpleVector(size_t size, const Type& value)
FillCtor(n, value) == [items |-> Fill(Fresh(n), 0, n, value), size |-> n, capacity |-> n]

\* SimpleVector(std::initializer_list<Type> init)
InitListCtor(init) ==
    [items |-> CopyFwd(init, 0, Len(init), Fresh(Len(init)), 0),
     size |-> Len(init), capacity |-> Len(init)]

\* SimpleVector(const SimpleVector& other)
CopyCtor(other) ==
    [items |-> CopyFwd(other.items, 0, other.size, Fresh(other.size), 0),
     size |-> other.size,
     capacity |-> other.capacity]

CopyCtorAccess(other) == [rd |-> 0..(other.size - 1), wr |-> {}]

\* A Clear that also gives the block back.
ClearReleases(v) == [v EXCEPT !.size = 0, !.capacity = 0, !.items = <<>>]

\* void Clear() noexcept
Clear(v) == [v EXCEPT !.size = 0]

\* A Resize that allocates exactly new_size slots when it grows.
ResizeExact(v, new_size) ==
    IF new_size = v.size THEN v
    ELSE IF new_size > v.capacity
         THEN [items |-> Fill(CopyFwd(v.items, 0, v.size, Fresh(new_size), 0),
                              v.size, new_size, DefaultValue),
               size |-> new_size,
               capacity |-> new_size]
         ELSE [v EXCEPT !.size = new_size]

\* A Resize that gives up the slots beyond new_size when it shrinks.
ResizeShrinksCapacity(v, new_size) ==
    IF new_size < v.size
    THEN [items |-> SubSeq(v.items, 1, new_size), size |-> new_size,
          capacity |-> new_size]
    ELSE IF new_size > v.capacity
         THEN [items |-> Fill(CopyFwd(v.items, 0, v.size,
                                      Fresh(Max(new_size, 2 * v.capacity)), 0),
                              v.size, new_size, DefaultValue),
               size |-> new_size,
               capacity |-> Max(new_size, 2 * v.capacity)]
         ELSE [v EXCEPT !.size = new_size]

\* void Resize(size_t new_size)
Resize(v, new_size) ==
    IF new_size = v.size THEN v
    ELSE LET shrunk == IF new_size < v.size
                       THEN Fill(v.items, new_size, v.size, DefaultValue)
                       ELSE v.items
         IN IF new_size > v.capacity
            THEN LET new_capacity == Max(new_size, 2 * v.capacity)
                     moved == CopyFwd(shrunk, 0, v.size, Fresh(new_capacity), 0)
                 IN [items |-> Fill(moved, v.size, new_size, DefaultValue),
                     size |-> new_size,
                     capacity |-> new_capacity]
            ELSE [items |-> shrunk, size |-> new_size, capacity |-> v.capacity]

ResizeAccess(v, new_size) ==
    [rd |-> IF new_size > v.capacity /\ new_size # v.size THEN 0..(v.size - 1) ELSE {},
     wr |-> IF new_size < v.size THEN new_size..(v.size - 1) ELSE {}]

\* A growth step of one slot instead of doubling.
GrownByOne(capacity) == capacity + 1

\* std::max(size_t(1), 2 * capacity_)
GrownCapacity(capacity) == Max(1, 2 * capacity)

\* PushBack whose reallocating path forgets capacity_ = new_capacity.
PushBackKeepsCapacity(v, item) ==
    IF v.size < v.capacity
    THEN [v EXCEPT !.items = Store(@, v.size, item), !.size = @ + 1]
    ELSE LET new_capacity == Max(1, 2 * v.capacity)
             copied == CopyFwd(v.items, 0, v.size, Fresh(new_capacity), 0)
         IN [items |-> Store(copied, v.size, item),
             size |-> v.size + 1,
             capacity |-> v.capacity]

\* void PushBack(const Type& item) / void PushBack(Type&& item)
PushBack(v, item) ==
    IF v.size < v.capacity
    THEN [v EXCEPT !.items = Store(@, v.size, item), !.size = @ + 1]
    ELSE LET new_capacity == GrownCapacity(v.capacity)
             copied == CopyFwd(v.items, 0, v.size, Fresh(new_capacity), 0)
         IN [items |-> Store(copied, v.size, item),
             size |-> v.size + 1,
             capacity |-> new_capacity]

PushBackAccess(v) ==
    IF v.size < v.capacity
    THEN [rd |-> {}, wr |-> {v.size}]
    ELSE [rd |-> 0..(v.size - 1), wr |-> {}]

\* Iterator Insert(ConstIterator pos, const Type& value) / (ConstIterator pos, Type&& value)
\* pos is the offset pos - cbegin().
Insert(v, pos, value) ==
    IF v.size < v.capacity
    THEN [v EXCEPT !.items = Store(ShiftBack(@, pos, v.size, v.size + 1), pos, value),
                   !.size = @ + 1]
    ELSE LET new_capacity == GrownCapacity(v.capacity)
             head == CopyFwd(v.items, 0, pos, Fresh(new_capacity), 0)
             tail == CopyBack(v.items, pos, v.size, head, v.size + 1)
         IN [items |-> Store(tail, pos, value),
             size |-> v.size + 1,
             capacity |-> new_capacity]

\* return Iterator{ &items_[pos_element] }, as the offset from begin().
InsertReturn(v, pos) == pos

InsertAccess(v, pos) ==
    IF v.size < v.capacity
    THEN [rd |-> pos..(v.size - 1), wr |-> pos..v.size]
    ELSE [rd |-> 0..(v.size - 1), wr |-> {}]

\* Reserve that swaps the new block in but forgets capacity_ = new_capacity.
ReserveKeepsCapacity(v, new_capacity) ==
    IF new_capacity <= v.capacity THEN v
    ELSE [items |-> CopyFwd(v.items, 0, v.size, Fresh(new_capacity), 0),
          size |-> v.size,
          capacity |-> v.capacity]

\* void Reserve(size_t new_capacity)
Reserve(v, new_capacity) ==
    IF new_capacity <= v.capacity THEN v
    ELSE [items |-> CopyFwd(v.items, 0, v.size, Fresh(new_capacity), 0),
          size |-> v.size,
          capacity |-> new_capacity]

ReserveAccess(v, new_capacity) ==
    [rd |-> IF new_capacity <= v.capacity THEN {} ELSE 0..(v.size - 1), wr |-> {}]

\* A hint constructor whose Reserve call does not act on the object built.
ReserveCtorDiscarded(capacity_to_reserve) == EmptyVec

\* SimpleVector(ReserveProxyObj capacity_to_reserve): the unqualified name
\* Reserve inside the class body is the member function, called on *this.
ReserveCtor(capacity_to_reserve) == Reserve(EmptyVec, capacity_to_reserve)

\* Iterator Erase(ConstIterator pos); pos is the offset pos - cbegin().
Erase(v, pos) ==
    [v EXCEPT !.items = ShiftFwd(@, pos + 1, v.size, pos), !.size = @ - 1]

\* return &items_[pos_element], as the offset from begin().
EraseReturn(v, pos) == pos

EraseAccess(v, pos) == [rd |-> (pos + 1)..(v.size - 1), wr |-> pos..(v.size - 2)]

\* void PopBack() noexcept: Erase(begin() + size_ - 1)
PopBack(v) == Erase(v, v.size - 1)

\* throw std::out_of_range("Error: no index")
OutOfRange == -2

\* At with the bound check off by one (index > size).
AtReturnOffByOne(v, index) == IF index > v.size THEN OutOfRange ELSE index

\* Type& At(size_t index) / const Type& At(size_t index) const: the slot the
\* returned reference names, or the exception.
AtReturn(v, index) == IF index >= v.size THEN OutOfRange ELSE index

\* At(index) = value, for index < size
SetAt(v, index, value) == [v EXCEPT !.items = Store(@, index, value)]

\* A move constructor that takes the source's size as its capacity.
MoveCtorSizeAsCapacity(other) ==
    [items |-> other.items, size |-> other.size, capacity |-> other.size]

\* SimpleVector(SimpleVector&& other): what the new object holds.
MoveCtor(other) == [items |-> other.items, size |-> other.size, capacity |-> other.capacity]

\* ArrayPtr's move assignment: the moved-from ArrayPtr owns no block.
MovedFromItems == <<>>

\* SimpleVector(SimpleVector&& other): what is left in other.
MovedFrom(other) == [items |-> MovedFromItems, size |-> 0, capacity |-> 0]

(***************************************************************************)
(* State.                                                                  *)
(*   vec[n]  the vector object n.                                          *)
(*   hist    the last call: its name, the object it was called on, its     *)
(*           arguments, whether it touched a slot outside an allocated     *)
(*           block, the position it returned (ret) and, for a comparison,  *)
(*           its result (res).                                             *)
(* Spec follows one vector, "a", through every operation; its copy         *)
(* constructor copies the vector followed so far, which is then dropped.   *)
(* SpecPair follows two vectors, each the partner of the other in copy,    *)
(* move, assignment and swap; there run and rt are not kept and hist says  *)
(* only which object was called and, for a call that does not involve the  *)
(* partner, whether it was a constructor or a mutating call.               *)
(* SpecCompare adds to SpecPair the calls that only read: At on a const    *)
(* vector and the six comparisons of a vector with its partner.            *)
(*   run     the PushBack calls made on run.tgt, with no other call in     *)
(*           between, since it was default-constructed ("default"),        *)
(*           constructed from a capacity hint ("hint") or given            *)
(*           Reserve(k) with k >= capacity ("reserve"), or since Clear     *)
(*           ("clear", k the capacity before it); cap and s0 are the       *)
(*           capacity after and the size at that first call; cleared says  *)
(*           the run began at Clear, or at the Reserve(k) right after a    *)
(*           Clear that found capacity k.                                  *)
(*   rt      after Insert(pos, value) on rt.tgt: the size and the elements *)
(*           before the Insert (stage 1); kept while the next call is      *)
(*           Erase(pos) on the same vector (stage 2).                      *)
(***************************************************************************)

NoRun == [kind |-> "none", tgt |-> "a", k |-> 0, cap |-> 0, s0 |-> 0, pushes |-> 0,
          cleared |-> FALSE]

NoRt == [stage |-> 0, tgt |-> "a", pos |-> 0, size |-> 0, elems |-> <<>>]

\* Every way of giving the never-written slots of a block a definite content.
Resolve(v) ==
    LET unset == {i \in 1..Len(v.items) : v.items[i] = Indeterminate}
    IN {[v EXCEPT !.items = [i \in 1..Len(v.items) |->
                                IF i \in unset THEN f[i] ELSE v.items[i]]] :
            f \in [unset -> Values]}

\* What a store outside a block can do to the partner's block v: nothing
\* visible, or overwrite one of its slots.
Clobbered(v) ==
    {v} \cup {[v EXCEPT !.items[i] = x] : i \in 1..Len(v.items), x \in Values}

NextRun(op, n, arg, before, after) ==
    CASE op = "SimpleVector()" ->
            [kind |-> "default", tgt |-> n, k |-> 0, cap |-> 0, s0 |-> 0, pushes |-> 0,
             cleared |-> FALSE]
      [] op = "SimpleVector(ReserveProxyObj)" ->
            [kind |-> "hint", tgt |-> n, k |-> arg, cap |-> after.capacity,
             s0 |-> 0, pushes |-> 0, cleared |-> FALSE]
      [] op = "Clear" ->
            [kind |-> "clear", tgt |-> n, k |-> before.capacity, cap |-> after.capacity,
             s0 |-> 0, pushes |-> 0, cleared |-> TRUE]
      [] op = "Reserve" /\ arg >= before.capacity ->
            [kind |-> "reserve", tgt |-> n, k |-> arg, cap |-> after.capacity,
             s0 |-> before.size, pushes |-> 0,
             cleared |-> (run.kind = "clear" /\ run.tgt = n /\ run.pushes = 0
                          /\ arg = run.k)]
      [] op = "PushBack" /\ run.kind # "none" /\ run.tgt = n ->
            [run EXCEPT !.pushes = @ + 1]
      [] OTHER -> NoRun

NextRt(op, n, pos, before) ==
    CASE op = "Insert" ->
            [stage |-> 1, tgt |-> n, pos |-> pos, size |-> before.size,
             elems |-> Elems(before)]
      [] op = "Erase" /\ rt.stage = 1 /\ rt.tgt = n /\ rt.pos = pos ->
            [rt EXCEPT !.stage = 2]
      [] OTHER -> NoRt

\* The two ways the operations are composed: m.lim bounds the capacity,
\* m.pair says whether the partner object is followed too.
One == [lim |-> MaxCap, pair |-> FALSE]

Two == [lim |-> MaxCapPair, pair |-> TRUE]

\* The calls that change what a vector holds without constructing it anew.
Mutators == {"Clear", "Resize", "PushBack", "Insert", "Reserve", "Erase", "PopBack", "At"}

\* What the reads of v's elements [0, size) can give: the content of a slot
\* of the block, anything for a slot outside it.
Views(v) ==
    {e \in [1..v.size -> Values] :
        \A i \in 1..v.size : Load(v.items, i - 1) \in {e[i], Indeterminate}}

\* std::equal(first1, last1, first2), from element i on (counted from 1).
RECURSIVE StdEqual(_, _, _)
StdEqual(l, r, i) ==
    IF i > Len(l) THEN TRUE
    ELSE IF l[i] # r[i] THEN FALSE
    ELSE StdEqual(l, r, i + 1)

\* std::lexicographical_compare(first1, last1, first2, last2), from element i.
RECURSIVE LexicographicalCompare(_, _, _)
LexicographicalCompare(l, r, i) ==
    IF i > Len(l) \/ i > Len(r) THEN i > Len(l) /\ i <= Len(r)
    ELSE IF l[i] < r[i] THEN TRUE
    ELSE IF r[i] < l[i] THEN FALSE
    ELSE LexicographicalCompare(l, r, i + 1)

\* operator==: every result the call can give.
Equal(lhs, rhs) ==
    IF lhs.size # rhs.size THEN {FALSE}
    ELSE {StdEqual(l, r, 1) : l \in Views(lhs), r \in Views(rhs)}

\* operator<
Less(lhs, rhs) ==
    {LexicographicalCompare(l, r, 1) : l \in Views(lhs), r \in Views(rhs)}

\* The six comparison operators, each as the code derives it.
Compare(op, lhs, rhs) ==
    CASE op = "operator==" -> Equal(lhs, rhs)
      [] op = "operator!=" -> {~x : x \in Equal(lhs, rhs)}
      [] op = "operator<" -> Less(lhs, rhs)
      [] op = "operator<=" ->
            {x \/ y : x \in Equal(lhs, rhs), y \in Less(lhs, rhs)}
      [] op = "operator>" -> Less(rhs, lhs)
      [] op = "operator>=" ->
            {x \/ y : x \in Equal(lhs, rhs), y \in Less(rhs, lhs)}

\* The calls that change nothing.
Readers == {"At const"}

\* The comparisons of an object with its partner.
CompareOps == {"operator==", "operator!=", "operator<", "operator<=", "operator>",
               "operator>="}

\* The calls that involve the partner object.
PartnerCalls ==
    {"SimpleVector(const SimpleVector&)", "SimpleVector(SimpleVector&&)", "operator=", "swap"}

\* hist.op when two vectors are followed: the call itself if it involves the
\* partner, else only whether it was a constructor or a mutating call.
Kind(op) ==
    IF op \in PartnerCalls \cup CompareOps THEN op
    ELSE IF op \in Mutators THEN "mutator"
    ELSE IF op \in Readers THEN "reader" ELSE "constructor"

Returned(m, op, n, arg, pos, oob, ret, res) ==
    /\ hist' = IF m.pair
               THEN [op |-> Kind(op), tgt |-> n, arg |-> IF op = "operator=" THEN arg ELSE 0,
                     pos |-> 0, oob |-> FALSE, ret |-> 0, res |-> res]
               ELSE [op |-> op, tgt |-> n, arg |-> arg, pos |-> pos, oob |-> oob,
                     ret |-> ret, res |-> res]
    /\ run' = IF m.pair THEN NoRun ELSE NextRun(op, n, arg, vec[n], vec'[n])
    /\ rt' = IF m.pair THEN NoRt ELSE NextRt(op, n, pos, vec[n])

\* A call that returns nothing.
Record(m, op, n, arg, pos, oob) == Returned(m, op, n, arg, pos, oob, 0, FALSE)

\* A call on vec[n] alone: after is the vector the code computes, acc the
\* slots of n's own block that it touched.
Call(m, op, n, after, acc, arg, pos, ret) ==
    /\ after.capacity <= m.lim
    /\ \E t \in Resolve(after) :
       \E o \in (IF OutOfBlock(vec[n], acc.wr) THEN Clobbered(vec[Other(n)])
                 ELSE {vec[Other(n)]}) :
            vec' = [x \in Names |-> IF x = n THEN t ELSE o]
    /\ Returned(m, op, n, arg, pos, OutOfBlock(vec[n], acc.rd \cup acc.wr), ret, FALSE)

NoAccess == [rd |-> {}, wr |-> {}]

Init ==
    /\ vec = [n \in Names |-> EmptyVec]
    /\ hist = [op |-> "SimpleVector()", tgt |-> "a", arg |-> 0, pos |-> 0, oob |-> FALSE,
               ret |-> 0, res |-> FALSE]
    /\ run = [kind |-> "default", tgt |-> "a", k |-> 0, cap |-> 0, s0 |-> 0, pushes |-> 0,
              cleared |-> FALSE]
    /\ rt = NoRt

NewDefault(m, n) == Call(m, "SimpleVector()", n, EmptyVec, NoAccess, 0, 0, 0)

NewSized(m, n) ==
    \E size \in 0..m.lim :
        Call(m, "SimpleVector(size_t)", n, SizeCtor(size), NoAccess, size, 0, 0)

NewFilled(m, n) ==
    \E size \in 0..m.lim, value \in Values :
        Call(m, "SimpleVector(size_t, const Type&)", n, FillCtor(size, value),
             NoAccess, size, 0, 0)

NewFromList(m, n) ==
    \E len \in 0..MaxInit : \E init \in [1..len -> Values] :
        Call(m, "SimpleVector(initializer_list)", n, InitListCtor(init), NoAccess, len, 0, 0)

\* SimpleVector n(other): other is the partner, or the vector followed so far.
NewCopy(m, n) ==
    LET other == IF m.pair THEN Other(n) ELSE n
    IN /\ \E t \in Resolve(CopyCtor(vec[other])) : vec' = [vec EXCEPT ![n] = t]
       /\ Record(m, "SimpleVector(const SimpleVector&)", n, 0, 0,
                 OutOfBlock(vec[other], CopyCtorAccess(vec[other]).rd))

\* SimpleVector n(std::move(other)), other the partner.
NewMoved(m, n) ==
    /\ m.pair
    /\ vec' = [x \in Names |-> IF x = n THEN MoveCtor(vec[Other(n)])
                                      ELSE MovedFrom(vec[Other(n)])]
    /\ Record(m, "SimpleVector(SimpleVector&&)", n, 0, 0, FALSE)

NewReserved(m, n) ==
    \E h \in 0..m.lim :
        Call(m, "SimpleVector(ReserveProxyObj)", n, ReserveCtor(h), NoAccess, h, 0, 0)

\* n = rhs: nothing when rhs is n itself, else SimpleVector tmp(rhs); swap(tmp).
CallAssign(m, n) ==
    \E rhs \in (IF m.pair THEN Names ELSE {n}) :
        /\ IF rhs = n THEN vec' = vec
           ELSE \E t \in Resolve(CopyCtor(vec[rhs])) : vec' = [vec EXCEPT ![n] = t]
        /\ Record(m, "operator=", n, IF rhs = n THEN 0 ELSE 1, 0,
                  rhs # n /\ OutOfBlock(vec[rhs], CopyCtorAccess(vec[rhs]).rd))

\* n.swap(other), other the partner.
CallSwap(m, n) ==
    /\ m.pair
    /\ vec' = [x \in Names |-> vec[Other(x)]]
    /\ Record(m, "swap", n, 0, 0, FALSE)

CallClear(m, n) == Call(m, "Clear", n, Clear(vec[n]), NoAccess, 0, 0, 0)

CallResize(m, n) ==
    \E new_size \in 0..m.lim :
        Call(m, "Resize", n, Resize(vec[n], new_size), ResizeAccess(vec[n], new_size),
             new_size, 0, 0)

CallPushBack(m, n) ==
    \E item \in Values :
        Call(m, "PushBack", n, PushBack(vec[n], item), PushBackAccess(vec[n]), item, 0, 0)

CallInsert(m, n) ==
    \E pos \in 0..vec[n].size, value \in Values :
        Call(m, "Insert", n, Insert(vec[n], pos, value), InsertAccess(vec[n], pos),
             value, pos, InsertReturn(vec[n], pos))

CallReserve(m, n) ==
    \E new_capacity \in 0..m.lim :
        Call(m, "Reserve", n, Reserve(vec[n], new_capacity),
             ReserveAccess(vec[n], new_capacity), new_capacity, 0, 0)

CallErase(m, n) ==
    \E pos \in 0..(vec[n].size - 1) :
        Call(m, "Erase", n, Erase(vec[n], pos), EraseAccess(vec[n], pos), 0, pos, EraseReturn(vec[n], pos))

CallPopBack(m, n) ==
    /\ vec[n].size > 0
    /\ Call(m, "PopBack", n, PopBack(vec[n]), EraseAccess(vec[n], vec[n].size - 1),
            0, vec[n].size - 1, 0)

CallSetAt(m, n) ==
    \E index \in 0..(vec[n].size - 1), value \in Values :
        Call(m, "At", n, SetAt(vec[n], index, value), [rd |-> {}, wr |-> {index}],
             value, index, AtReturn(vec[n], index))

\* n.At(index) on a const vector, for any index.
CallAt(m, n) ==
    \E index \in 0..m.lim :
        Call(m, "At const", n, vec[n],
             [rd |-> IF index >= vec[n].size THEN {} ELSE {index}, wr |-> {}],
             0, index, AtReturn(vec[n], index))

\* n == partner, n < partner and the other comparisons.
CallCompare(m, n) ==
    /\ m.pair
    /\ \E op \in CompareOps :
       \E result \in Compare(op, vec[n], vec[Other(n)]) :
           /\ vec' = vec
           /\ Returned(m, op, n, 0, 0, FALSE, 0, result)

Next ==
    \/ NewDefault(One, "a")
    \/ NewSized(One, "a")
    \/ NewFilled(One, "a")
    \/ NewFromList(One, "a")
    \/ NewCopy(One, "a")
    \/ NewReserved(One, "a")
    \/ CallAssign(One, "a")
    \/ CallClear(One, "a")
    \/ CallResize(One, "a")
    \/ CallPushBack(One, "a")
    \/ CallInsert(One, "a")
    \/ CallReserve(One, "a")
    \/ CallErase(One, "a")
    \/ CallPopBack(One, "a")
    \/ CallSetAt(One, "a")
    \/ CallAt(One, "a")

Spec == Init /\ [][Next]_vars

NextPair ==
    \E n \in Names :
        \/ NewDefault(Two, n)
        \/ NewSized(Two, n)
        \/ NewFilled(Two, n)
        \/ NewFromList(Two, n)
        \/ NewCopy(Two, n)
        \/ NewMoved(Two, n)
        \/ NewReserved(Two, n)
        \/ CallAssign(Two, n)
        \/ CallSwap(Two, n)
        \/ CallClear(Two, n)
        \/ CallResize(Two, n)
        \/ CallPushBack(Two, n)
        \/ CallInsert(Two, n)
        \/ CallReserve(Two, n)
        \/ CallErase(Two, n)
        \/ CallPopBack(Two, n)
        \/ CallSetAt(Two, n)

SpecPair == Init /\ [][NextPair]_vars

\* The two vectors of SpecPair, and the calls that only read them.
NextCompare ==
    \/ NextPair
    \/ \E n \in Names :
          \/ CallAt(Two, n)
          \/ CallCompare(Two, n)

SpecCompare == Init /\ [][NextCompare]_vars

(***************************************************************************)
(* Properties.                                                             *)
(***************************************************************************)

CopyCtorName == "SimpleVector(const SimpleVector&)"

MoveCtorName == "SimpleVector(SimpleVector&&)"

IsPowerOfTwo(c) == \E i \in 0..c : 2 ^ i = c

\* C1: in every reachable state the capacity a vector reports equals the
\* number of elements its block was allocated for.
C1_CapacityIsAllocatedSize == \A n \in Names : vec[n].capacity = Alloc(vec[n])

\* C2: a copy-constructed vector has size and capacity both equal to the
\* size of its source (which the constructor leaves as it was).
C2_CopyIsExactSize ==
    hist.op = CopyCtorName =>
        /\ vec[hist.tgt].size = vec[Other(hist.tgt)].size
        /\ vec[hist.tgt].capacity = vec[Other(hist.tgt)].size

\* C3: Resize(n) with n above the size makes the size n, keeps the elements
\* [0, old size) and makes every element of [old size, n) the default value,
\* whether or not n exceeds the capacity.
C3_ResizeGrowDefaults ==
    [][(hist'.op = "Resize" /\ hist'.arg > vec["a"].size) =>
          /\ vec'["a"].size = hist'.arg
          /\ \A i \in 0..(vec["a"].size - 1) :
                Load(vec'["a"].items, i) = Load(vec["a"].items, i)
          /\ \A i \in vec["a"].size..(hist'.arg - 1) :
                Load(vec'["a"].items, i) = DefaultValue]_vars

\* C4: in every reachable state 0 <= size <= capacity.
C4_SizeAtMostCapacity ==
    \A n \in Names : 0 <= vec[n].size /\ vec[n].size <= vec[n].capacity

C4_Witness ==
    /\ hist.op = "mutator"
    /\ vec[hist.tgt].size = MaxCapPair
    /\ vec[hist.tgt].capacity = MaxCapPair

\* C5: after N PushBack calls in a row on a default-constructed vector the
\* size is N and the capacity is 0 for N = 0 and else the power of two in
\* [N, 2N): the capacities visited are 0, 1, 2, 4, 8, ...
C5_PushBackDoubles ==
    (run.kind = "default") =>
        /\ vec[run.tgt].size = run.pushes
        /\ run.pushes = 0 => vec[run.tgt].capacity = 0
        /\ run.pushes > 0 =>
              /\ IsPowerOfTwo(vec[run.tgt].capacity)
              /\ run.pushes <= vec[run.tgt].capacity
              /\ vec[run.tgt].capacity < 2 * run.pushes

C5_Witness ==
    /\ run.kind = "default"
    /\ run.pushes = 3
    /\ vec[run.tgt].capacity = 4

\* C6: Insert(p, v) immediately followed by Erase at p restores the size and
\* the elements [0, size) the vector had before the Insert.
C6_InsertEraseRoundTrip ==
    (rt.stage = 2) =>
        /\ vec[rt.tgt].size = rt.size
        /\ Elems(vec[rt.tgt]) = rt.elems

\* C7 as stated: after Reserve(k) with k >= capacity, k PushBack calls in a
\* row leave the capacity as Reserve left it, and at least k.
C7_ReserveThenKPushBacks ==
    (run.kind = "reserve" /\ run.pushes <= run.k) =>
        /\ vec[run.tgt].capacity = run.cap
        /\ vec[run.tgt].capacity >= run.k

\* C7 amended: after Reserve(k) with k >= capacity on a vector of size s, the
\* first k - s PushBack calls in a row leave the capacity as Reserve left it,
\* and at least k; the size is then s plus the number of calls.
C7_ReserveThenPushBacksUpToK ==
    (run.kind = "reserve" /\ run.pushes <= run.k - run.s0) =>
        /\ vec[run.tgt].capacity = run.cap
        /\ vec[run.tgt].capacity >= run.k
        /\ vec[run.tgt].size = run.s0 + run.pushes

C7_Witness ==
    /\ run.kind = "reserve"
    /\ run.s0 >= 1
    /\ run.pushes >= 2
    /\ run.pushes = run.k - run.s0
    /\ run.k > 2 * run.s0

\* C8: a vector made by copy construction or copy assignment equals its
\* source (same size, same elements in order), and a mutating call on either
\* of the two leaves the size, the capacity and the elements of the other
\* unchanged.
C8_CopyEqualAndIndependent ==
    [][/\ (hist'.op = CopyCtorName \/ (hist'.op = "operator=" /\ hist'.arg = 1)) =>
             /\ vec'[hist'.tgt].size = vec'[Other(hist'.tgt)].size
             /\ Elems(vec'[hist'.tgt]) = Elems(vec'[Other(hist'.tgt)])
       /\ (hist'.op = "mutator") =>
             /\ vec'[Other(hist'.tgt)].size = vec[Other(hist'.tgt)].size
             /\ vec'[Other(hist'.tgt)].capacity = vec[Other(hist'.tgt)].capacity
             /\ Elems(vec'[Other(hist'.tgt)]) = Elems(vec[Other(hist'.tgt)])]_vars

\* C9: move construction leaves the source with size 0 and capacity 0, and
\* the new vector has the source's prior size, capacity and elements.
C9_MoveTransfers ==
    [][(hist'.op = MoveCtorName) =>
          /\ vec'[Other(hist'.tgt)].size = 0
          /\ vec'[Other(hist'.tgt)].capacity = 0
          /\ vec'[hist'.tgt].size = vec[Other(hist'.tgt)].size
          /\ vec'[hist'.tgt].capacity = vec[Other(hist'.tgt)].capacity
          /\ Elems(vec'[hist'.tgt]) = Elems(vec[Other(hist'.tgt)])]_vars

C9_Witness ==
    /\ hist.op = MoveCtorName
    /\ vec[hist.tgt].size = 1
    /\ vec[hist.tgt].capacity = 2
    /\ Elems(vec[hist.tgt]) = <<1>>
    /\ vec[Other(hist.tgt)].capacity = 0

\* C10: a vector constructed from the capacity hint h has size 0 and
\* capacity at least h, and h PushBack calls in a row on it leave its
\* capacity unchanged.
C10_HintReserves ==
    (run.kind = "hint" /\ run.pushes <= run.k) =>
        /\ vec[run.tgt].size = run.pushes
        /\ vec[run.tgt].capacity >= run.k
        /\ vec[run.tgt].capacity = run.cap

C10_Witness ==
    /\ run.kind = "hint"
    /\ run.k = 3
    /\ run.pushes = 3
    /\ vec[run.tgt].capacity = 3

\* C11: At(i) throws out_of_range exactly when i >= size, which includes
\* size <= i < capacity and every index of an empty vector, and then the size,
\* the capacity and the elements are as before; when i < size it returns the
\* element slot i and does not throw.
C11_AtChecksAgainstSize ==
    [][hist'.op = "At const" =>
          /\ (hist'.ret = OutOfRange) <=> (hist'.pos >= vec["a"].size)
          /\ vec' = vec
          /\ hist'.pos < vec["a"].size => hist'.ret = hist'.pos]_vars

\* At was called with size <= i < capacity and threw.
C11_Witness ==
    /\ hist.op = "At const"
    /\ hist.ret = OutOfRange
    /\ vec["a"].size > 0
    /\ vec["a"].size <= hist.pos
    /\ hist.pos < vec["a"].capacity

\* C12: Clear sets the size to 0 and leaves the capacity as it was, so a
\* Reserve(c) that follows with c the capacity before the Clear changes
\* nothing, and the PushBack calls after the Clear, up to that capacity, are
\* made without a reallocation: the capacity stays c.
C12_ClearKeepsCapacity ==
    [][/\ hist'.op = "Clear" =>
              /\ vec'["a"].size = 0
              /\ vec'["a"].capacity = vec["a"].capacity
       /\ (hist'.op = "Reserve" /\ run'.cleared) => vec' = vec
       /\ (hist'.op = "PushBack" /\ run'.cleared /\ run'.pushes <= run'.k) =>
              /\ vec'["a"].capacity = vec["a"].capacity
              /\ vec'["a"].capacity = run'.k
              /\ vec'["a"].size = run'.pushes]_vars

\* Clear of a vector holding elements, Reserve of the capacity it had, then
\* as many PushBack calls as that capacity.
C12_Witness ==
    /\ run.kind = "reserve"
    /\ run.cleared
    /\ run.k >= 2
    /\ run.pushes = run.k
    /\ vec["a"].capacity = run.k

\* The sequence e with x put in front of its element p (counted from 0).
InsertedAt(e, p, x) == SubSeq(e, 1, p) \o <<x>> \o SubSeq(e, p + 1, Len(e))

\* The sequence e without its element p (counted from 0).
ErasedAt(e, p) == SubSeq(e, 1, p) \o SubSeq(e, p + 2, Len(e))

\* C13: Insert(p, v) on elements e[0..size), on the in-place path and on the
\* reallocating path alike, leaves size + 1 elements e[0..p), v, e[p..size)
\* and returns position p.
C13_InsertPlacesValue ==
    [][hist'.op = "Insert" =>
          /\ vec'["a"].size = vec["a"].size + 1
          /\ Elems(vec'["a"]) = InsertedAt(Elems(vec["a"]), hist'.pos, hist'.arg)
          /\ hist'.ret = hist'.pos]_vars

\* C14: Erase(p) leaves e[0..p) followed by e[p+1..size), keeps the capacity
\* and returns position p; PopBack does what Erase at size - 1 does.
C14_EraseClosesGap ==
    [][/\ hist'.op = "Erase" =>
              /\ Elems(vec'["a"]) = ErasedAt(Elems(vec["a"]), hist'.pos)
              /\ vec'["a"].capacity = vec["a"].capacity
              /\ hist'.ret = hist'.pos
       /\ hist'.op = "PopBack" =>
              /\ Elems(vec'["a"]) = ErasedAt(Elems(vec["a"]), vec["a"].size - 1)
              /\ vec'["a"].capacity = vec["a"].capacity]_vars

\* C15: Reserve(c) leaves the size and the elements as they were; the
\* capacity is unchanged when c <= capacity and exactly c when c > capacity.
C15_ReserveKeepsElements ==
    [][hist'.op = "Reserve" =>
          /\ vec'["a"].size = vec["a"].size
          /\ Elems(vec'["a"]) = Elems(vec["a"])
          /\ vec'["a"].capacity = IF hist'.arg <= vec["a"].capacity
                                  THEN vec["a"].capacity
                                  ELSE hist'.arg]_vars

\* C16: PushBack(v) on elements e[0..size) leaves e[0..size) followed by v,
\* with the capacity unchanged on the in-place path (size < capacity), and
\* the same elements on the reallocating path.
C16_PushBackAppends ==
    [][hist'.op = "PushBack" =>
          /\ vec'["a"].size = vec["a"].size + 1
          /\ Elems(vec'["a"]) = Append(Elems(vec["a"]), hist'.arg)
          /\ vec["a"].size < vec["a"].capacity =>
                 vec'["a"].capacity = vec["a"].capacity]_vars

\* e and f have the same length and the same element at every position.
SameElements(e, f) == Len(e) = Len(f) /\ \A i \in 1..Len(e) : e[i] = f[i]

\* e comes before f in lexicographic order: at the first position where they
\* differ e has the smaller element, or e is a proper prefix of f.
Precedes(e, f) ==
    \E k \in 0..Len(e) :
        /\ k <= Len(f)
        /\ \A i \in 1..k : e[i] = f[i]
        /\ \/ k = Len(e) /\ k < Len(f)
           \/ k < Len(e) /\ k < Len(f) /\ e[k + 1] < f[k + 1]

\* What each comparison of element sequences e and f is to give.
Relation(op, e, f) ==
    CASE op = "operator==" -> SameElements(e, f)
      [] op = "operator!=" -> ~SameElements(e, f)
      [] op = "operator<" -> Precedes(e, f)
      [] op = "operator<=" -> SameElements(e, f) \/ Precedes(e, f)
      [] op = "operator>" -> Precedes(f, e)
      [] op = "operator>=" -> SameElements(e, f) \/ Precedes(f, e)

\* C17: a == b is true exactly when a and b have the same size and equal
\* elements over [0, size), whatever their capacities and the slots beyond
\* size hold; a < b is the lexicographic order of the element sequences;
\* <=, > and >= are (== or <), (b < a) and (== or b < a).
C17_ComparisonsOnElements ==
    [][hist'.op \in CompareOps =>
          hist'.res = Relation(hist'.op, Elems(vec[hist'.tgt]),
                               Elems(vec[Other(hist'.tgt)]))]_vars

\* C18: with C the capacity before the call and m the size the call asks
\* for (size + 1 for PushBack and Insert, n for Resize(n)), the capacity
\* changes only when m > C and is then max(m, 2 * C), which for C = 0 is
\* max(1, m); when m <= C it stays C.
C18_GrowthRule ==
    [][hist'.op \in {"PushBack", "Insert", "Resize"} =>
          LET C == vec["a"].capacity
              m == IF hist'.op = "Resize" THEN hist'.arg ELSE vec["a"].size + 1
          IN /\ m <= C => vec'["a"].capacity = C
             /\ m > C => vec'["a"].capacity = Max(m, 2 * C)
             /\ (m > C /\ C = 0) => vec'["a"].capacity = Max(1, m)]_vars

\* The second PushBack on a default-constructed vector: it found size 1 and
\* capacity 1 and left capacity 2.
C18_Witness ==
    /\ hist.op = "PushBack"
    /\ run.kind = "default"
    /\ run.pushes = 2
    /\ vec["a"].size = 2
    /\ vec["a"].capacity = 2

\* C19: every element slot a call reads or writes has an index below the
\* number of elements the block it accesses was allocated for.
C19_AccessesInsideBlock == ~hist.oob

\* C20: a call of PushBack, Insert, Erase, PopBack, Resize, Reserve or Clear
\* never leaves a vector with less capacity than it had; a capacity gets
\* lower only for the target of a copy assignment, for a vector that is
\* swapped or moved from, or where a constructor puts a new object.
C20_CapacityOnlyGrows ==
    [][\A n \in Names :
          vec'[n].capacity < vec[n].capacity =>
              \/ hist'.op = "operator=" /\ hist'.tgt = n
              \/ hist'.op = "swap"
              \/ hist'.op = MoveCtorName
              \/ hist'.op \in {"constructor", CopyCtorName} /\ hist'.tgt = n]_vars

\* A mutating call left a vector of full capacity with fewer elements than
\* slots.
C20_Witness ==
    /\ hist.op = "mutator"
    /\ vec[hist.tgt].size < MaxCapPair
    /\ vec[hist.tgt].size > 0
    /\ vec[hist.tgt].capacity = MaxCapPair

====
